---- MODULE Spec2Model ----
(***************************************************************************)
(* Model of server.js: the POST /api/book handler of the AZ Clean booking  *)
(* endpoint, with the three external collaborators it drives (Google       *)
(* Calendar, Firestore, Twilio).                                           *)
(*                                                                         *)
(* One handler invocation runs synchronously up to each `await`; every     *)
(* action below is one such synchronous stretch: the return (or the        *)
(* rejection) of the awaited external call together with the code that     *)
(* follows it up to the next await or the response.  Handlers of different *)
(* requests interleave at the awaits.                                      *)
(*                                                                         *)
(* A rejected external call has no effect on the collaborator.  The email  *)
(* field (optional, copied verbatim into the record and the description)   *)
(* is left out of the request body.                                        *)
(***************************************************************************)
EXTENDS Integers, Sequences, FiniteSets, TLC

\* ------------------------------------------------------------------ bounds
\* Number of requests the server receives in one behaviour.
MaxReqs == 2
\* Longest phone, in characters, of the phone specification (SpecPhone).
MaxPhoneLen == 3

\* ------------------------------------------------------- program constants
\* `duration = 60` in the destructuring of req.body.
DefaultDuration == 60
MinutesPerDay == 1440
\* HTTP status codes of the four responses; 0 = no response sent yet.
NoResponse == 0
OK == 200
BadRequest == 400
Conflict == 409
InternalError == 500
\* null (bookingRef = null, bookingId: null); ids start at 1.
Null == 0

\* ------------------------------------------------------------ request body
\* Strings are JS strings; "" (and an absent field) is falsy.  phone is a
\* sequence of characters so that startsWith can look at its first one.
Services == {"", "Limpeza"}
Dates == {"", "2025-06-01"}
Times == {"", "10:00", "10:30", "25:00"}
Names == {"", "Ana"}
Phones == {<<>>, <<"3", "5">>}
\* duration: <<>> when the body has no duration, <<n>> when it has n.
Durations == {<<>>, <<30>>}

BaseBody ==
  [service |-> "Limpeza", date |-> "2025-06-01", time |-> "10:00",
   duration |-> <<>>, name |-> "Ana", phone |-> <<"3", "5">>]

\* The bodies the server is sent: BaseBody with at most one field replaced
\* by another value of its set.  Their windows are 10:00-11:00 (BaseBody),
\* 10:30-11:30 and 10:00-10:30: the first overlaps both others, the last two
\* only touch at 10:30.
Bodies ==
  {[BaseBody EXCEPT !.service = x] : x \in Services}
    \cup {[BaseBody EXCEPT !.date = x] : x \in Dates}
    \cup {[BaseBody EXCEPT !.time = x] : x \in Times}
    \cup {[BaseBody EXCEPT !.duration = x] : x \in Durations}
    \cup {[BaseBody EXCEPT !.name = x] : x \in Names}
    \cup {[BaseBody EXCEPT !.phone = x] : x \in Phones}

\* ----------------------------------------------------------------- helpers
\* !x of JavaScript: the empty string (or an absent field) is falsy.
Falsy(x) == x = ""

FalsyChars(x) == Len(x) = 0

\* The zone of the runtime (the TZ of the process): Date parses and does its
\* field arithmetic in it.  The tz parameter of toISO is not used by toISO.
VARIABLE localZone

Zones == {"UTC", "Europe/Lisbon"}

\* The local date and time `${dateStr}T${timeStr}:00` in minutes of local
\* clock, days counted from 2025-05-31; -1 stands for Invalid Date.
DayOf(dateStr) ==
  CASE dateStr = "2025-06-01" -> 1
    [] dateStr = "2025-10-26" -> 148
    [] OTHER -> -1

MinuteOf(timeStr) ==
  CASE timeStr = "10:00" -> 600
    [] timeStr = "10:30" -> 630
    [] timeStr = "00:30" -> 30
    [] timeStr = "01:30" -> 90
    [] OTHER -> -1

InvalidDate == -1

\* Summer time in Europe/Lisbon, 2025: from 30 March 01:00 UTC to 26 October
\* 01:00 UTC the local clock is 60 minutes ahead of UTC.
DSTStart == (0 - 62) * MinutesPerDay + 60

DSTEnd == 148 * MinutesPerDay + 60

\* LocalTZA(t, true): the offset of the zone at the UTC instant t.
OffsetAt(zone, t) ==
  IF zone = "Europe/Lisbon" /\ DSTStart <= t /\ t < DSTEnd THEN 60 ELSE 0

\* LocalTime(t) = t + LocalTZA(t, true)
LocalTime(zone, t) == t + OffsetAt(zone, t)

\* UTC(t) = t - LocalTZA(t, false): a local time that occurs twice (clock set
\* back) or never (clock set forward) is read with the offset in force before
\* the transition.
UTCOf(zone, local) ==
  IF OffsetAt(zone, local - 60) = 60 THEN local - 60 ELSE local

\* new Date(`${dateStr}T${timeStr}:00`): the string has no offset, so it is
\* local time.
ParseDate(dateStr, timeStr) ==
  IF DayOf(dateStr) < 0 \/ MinuteOf(timeStr) < 0
  THEN InvalidDate
  ELSE UTCOf(localZone, DayOf(dateStr) * MinutesPerDay + MinuteOf(timeStr))

\* toISO: toISOString() throws RangeError on Invalid Date.
toISOThrows(dateStr, timeStr) == ParseDate(dateStr, timeStr) = InvalidDate

toISO(dateStr, timeStr) == ParseDate(dateStr, timeStr)

\* const { duration = 60 } = req.body; Number(duration)
DurationOf(body) ==
  IF body.duration = <<>> THEN DefaultDuration ELSE body.duration[1]

\* endDate.setMinutes(endDate.getMinutes() + Number(duration)): setMinutes
\* works on the local clock (LocalTime, MakeTime, UTC); toISOString()
EndISO(startISO, body) ==
  UTCOf(localZone, LocalTime(localZone, startISO) + DurationOf(body))

\* Mutant of MissingRequired: the test forgets phone.
MissingRequired_NoPhone(body) ==
  \/ Falsy(body.service)
  \/ Falsy(body.date)
  \/ Falsy(body.time)
  \/ Falsy(body.name)

\* if (!service || !date || !time || !name || !phone)
MissingRequired(body) ==
  \/ Falsy(body.service)
  \/ Falsy(body.date)
  \/ Falsy(body.time)
  \/ Falsy(body.name)
  \/ FalsyChars(body.phone)

\* Mutant of EventsList: timeMin bounds the start of the events, not their
\* end.
EventsList_StartsInside(cal, timeMin, timeMax) ==
  {e \in cal : e.start >= timeMin /\ e.start < timeMax}

\* Mutant of EventsList: the bounds of the query are inclusive.
EventsList_Inclusive(cal, timeMin, timeMax) ==
  {e \in cal : e.end >= timeMin /\ e.start <= timeMax}

\* calendar.events.list({timeMin, timeMax}): the events that end after
\* timeMin and start before timeMax.
EventsList(cal, timeMin, timeMax) ==
  {e \in cal : e.end > timeMin /\ e.start < timeMax}

\* Mutant of isAvailable: `>= 0` for `=== 0`.
isAvailable_AtLeastZero(items) == Cardinality(items) >= 0

\* isAvailable: (res.data.items || []).length === 0
isAvailable(items) == Cardinality(items) = 0

\* Mutant of NormalizePhone: the "+" is prepended without the startsWith test.
NormalizePhone_AlwaysPrepends(phone) == <<"+">> \o phone

\* `whatsapp:${phone.startsWith('+') ? phone : '+' + phone}`
NormalizePhone(phone) ==
  IF Len(phone) > 0 /\ phone[1] = "+" THEN phone ELSE <<"+">> \o phone

\* ------------------------------------------------------------------- state
VARIABLES
  db,                   \* TRUE iff Firestore was initialised (db !== null)
  TWILIO_WHATSAPP_FROM, \* the sender identity, "" when not configured
  calendar,             \* the events of the Google calendar
  bookings,             \* the 'bookings' collection; a record's id is its index
  messages,             \* the messages Twilio accepted
  reqs,                 \* the handler invocations, in order of arrival
  calls                 \* per invocation, the external calls it made so far

vars ==
  <<localZone, db, TWILIO_WHATSAPP_FROM, calendar, bookings, messages, reqs,
    calls>>

Senders == {"", "whatsapp:+14155238886"}

Rs == 1..Len(reqs)

Init ==
  /\ localZone = "UTC"
  /\ db \in BOOLEAN
  /\ TWILIO_WHATSAPP_FROM \in Senders
  /\ calendar = {}
  /\ bookings = <<>>
  /\ messages = <<>>
  /\ reqs = <<>>
  /\ calls = <<>>

\* One external call of an invocation, as the collaborator saw it: which
\* call, whether it resolved, the id of the record or event it created (Null
\* when it created none) and, for the list call, the calendar it was
\* evaluated against.
Call(op, ok, id) == [op |-> op, ok |-> ok, id |-> id, cal |-> {}]

CallList(ok, cal) == [op |-> "list", ok |-> ok, id |-> Null, cal |-> cal]

\* res.status(s).json(...): the handler returns.
Respond(h, status, eventId, bookingId) ==
  [h EXCEPT !.pc = "done", !.status = status,
            !.eventId = eventId, !.bookingId = bookingId]

\* Mutant of Caught: the catch block logs the error and sends no response.
Caught_OnlyLogs(h) == [h EXCEPT !.pc = "done"]

\* Mutant of Caught: res.json(...) without status(500).
Caught_NoStatus(h) == Respond(h, OK, Null, Null)

\* catch (err) { return res.status(500).json(...) }
Caught(h) == Respond(h, InternalError, Null, Null)

\* A new invocation with its locals before the first statement.
NewHandler(body) ==
  [body |-> body, pc |-> "start", startISO |-> 0, endISO |-> 0,
   bookingRef |-> Null, insertRes |-> Null,
   status |-> NoResponse, eventId |-> Null, bookingId |-> Null]

\* ----------------------------------------------------------------- actions
\* Lines 64-78: validation, the time window, and the call of isAvailable.
Validate(h) ==
  IF MissingRequired(h.body)
  THEN Respond(h, BadRequest, Null, Null)
  ELSE IF toISOThrows(h.body.date, h.body.time)
  THEN Caught(h)
  ELSE [h EXCEPT !.pc = "list",
                 !.startISO = toISO(h.body.date, h.body.time),
                 !.endISO = EndISO(toISO(h.body.date, h.body.time), h.body)]

Receive(body) ==
  /\ Len(reqs) < MaxReqs
  /\ reqs' = Append(reqs, Validate(NewHandler(body)))
  /\ calls' = Append(calls, <<>>)
  /\ UNCHANGED <<localZone, db, TWILIO_WHATSAPP_FROM, calendar, bookings, messages>>

\* Mutant of AfterList: the 409 branch is missing.
AfterList_IgnoresConflict(h, items) ==
  IF db THEN [h EXCEPT !.pc = "add"] ELSE [h EXCEPT !.pc = "insert"]

\* Mutant of AfterList: the `if (db)` guard of the add is missing.
AfterList_AlwaysAdds(h, items) ==
  IF ~isAvailable(items)
  THEN Respond(h, Conflict, Null, Null)
  ELSE [h EXCEPT !.pc = "add"]

\* Lines 78-87: isAvailable returned; 409 when the slot is taken, otherwise
\* the record is added when Firestore is on, or else the event is inserted.
AfterList(h, items) ==
  IF ~isAvailable(items)
  THEN Respond(h, Conflict, Null, Null)
  ELSE IF db THEN [h EXCEPT !.pc = "add"] ELSE [h EXCEPT !.pc = "insert"]

ListReturns(r) ==
  /\ reqs[r].pc = "list"
  /\ reqs' = [reqs EXCEPT ![r] =
       AfterList(@, EventsList(calendar, @.startISO, @.endISO))]
  /\ calls' = [calls EXCEPT ![r] = Append(@, CallList(TRUE, calendar))]
  /\ UNCHANGED <<localZone, db, TWILIO_WHATSAPP_FROM, calendar, bookings, messages>>

\* Mutant of PendingRecord: the record is stored as confirmed at once.
PendingRecord_StartsConfirmed(body) ==
  [service |-> body.service, date |-> body.date, time |-> body.time,
   duration |-> DurationOf(body), name |-> body.name, phone |-> body.phone,
   status |-> "confirmed", calendarEventId |-> Null]

\* Lines 84-86: the record db.collection('bookings').add(...) stores.
PendingRecord(body) ==
  [service |-> body.service, date |-> body.date, time |-> body.time,
   duration |-> DurationOf(body), name |-> body.name, phone |-> body.phone,
   status |-> "pending", calendarEventId |-> Null]

\* Mutant of AfterAdd: the record is updated before the event is inserted.
AfterAdd_UpdatesFirst(h, ref) == [h EXCEPT !.bookingRef = ref, !.pc = "update"]

\* Lines 84-101: add() returned a reference; the event is built and
\* calendar.events.insert is called.
AfterAdd(h, ref) == [h EXCEPT !.bookingRef = ref, !.pc = "insert"]

AddReturns(r) ==
  /\ reqs[r].pc = "add"
  /\ bookings' = Append(bookings, PendingRecord(reqs[r].body))
  /\ reqs' = [reqs EXCEPT ![r] = AfterAdd(@, Len(bookings) + 1)]
  /\ calls' = [calls EXCEPT ![r] =
       Append(@, Call("add", TRUE, Len(bookings) + 1))]
  /\ UNCHANGED <<localZone, db, TWILIO_WHATSAPP_FROM, calendar, messages>>

\* Lines 90-96: the event resource.
Event(h, id) ==
  [id |-> id, start |-> h.startISO, end |-> h.endISO,
   service |-> h.body.service, name |-> h.body.name]

\* Lines 108-118: the notification is sent when a sender is configured,
\* otherwise the handler answers 200.
Success(h) == Respond(h, OK, h.insertRes, h.bookingRef)

\* Mutant of AfterUpdate: the `if (TWILIO_WHATSAPP_FROM)` guard is missing.
AfterUpdate_AlwaysSends(h) == [h EXCEPT !.pc = "send"]

AfterUpdate(h) ==
  IF TWILIO_WHATSAPP_FROM # "" THEN [h EXCEPT !.pc = "send"] ELSE Success(h)

\* Lines 98-106: insert returned the event; the record is updated when there
\* is one.
AfterInsert(h, id) ==
  IF db /\ h.bookingRef # Null
  THEN [h EXCEPT !.insertRes = id, !.pc = "update"]
  ELSE AfterUpdate([h EXCEPT !.insertRes = id])

InsertReturns(r) ==
  /\ reqs[r].pc = "insert"
  /\ LET id == Cardinality(calendar) + 1 IN
       /\ calendar' = calendar \cup {Event(reqs[r], id)}
       /\ reqs' = [reqs EXCEPT ![r] = AfterInsert(@, id)]
  /\ calls' = [calls EXCEPT ![r] =
       Append(@, Call("insert", TRUE, Cardinality(calendar) + 1))]
  /\ UNCHANGED <<localZone, db, TWILIO_WHATSAPP_FROM, bookings, messages>>

\* Mutant of Confirmed: the update attaches the event id only.
Confirmed_KeepsStatus(rec, eventId) == [rec EXCEPT !.calendarEventId = eventId]

\* Line 105: bookingRef.update({status: 'confirmed', calendarEventId}).
Confirmed(rec, eventId) ==
  [rec EXCEPT !.status = "confirmed", !.calendarEventId = eventId]

\* Mutant of UpdateReturns: bookingRef is shared by the invocations (a
\* module-level variable), so the update goes to the record added last.
UpdateReturns_SharedRef(r) ==
  /\ reqs[r].pc = "update"
  /\ bookings' = [bookings EXCEPT ![Len(bookings)] =
       Confirmed(@, reqs[r].insertRes)]
  /\ reqs' = [reqs EXCEPT ![r] = AfterUpdate(@)]
  /\ calls' = [calls EXCEPT ![r] =
       Append(@, Call("update", TRUE, reqs[r].bookingRef))]
  /\ UNCHANGED <<localZone, db, TWILIO_WHATSAPP_FROM, calendar, messages>>

UpdateReturns(r) ==
  /\ reqs[r].pc = "update"
  /\ bookings' = [bookings EXCEPT ![reqs[r].bookingRef] =
       Confirmed(@, reqs[r].insertRes)]
  /\ reqs' = [reqs EXCEPT ![r] = AfterUpdate(@)]
  /\ calls' = [calls EXCEPT ![r] =
       Append(@, Call("update", TRUE, reqs[r].bookingRef))]
  /\ UNCHANGED <<localZone, db, TWILIO_WHATSAPP_FROM, calendar, messages>>

\* Lines 110-115: the message handed to twilioClient.messages.create.
Message(body) ==
  [from |-> TWILIO_WHATSAPP_FROM, to |-> NormalizePhone(body.phone),
   name |-> body.name, service |-> body.service,
   date |-> body.date, time |-> body.time]

SendReturns(r) ==
  /\ reqs[r].pc = "send"
  /\ messages' = Append(messages, Message(reqs[r].body))
  /\ reqs' = [reqs EXCEPT ![r] = Success(@)]
  /\ calls' = [calls EXCEPT ![r] = Append(@, Call("send", TRUE, Null))]
  /\ UNCHANGED <<localZone, db, TWILIO_WHATSAPP_FROM, calendar, bookings>>

\* Mutant of Rejects: a rejected call is issued again.
Rejects_Retries(r, op) ==
  /\ reqs[r].pc = op
  /\ calls' = [calls EXCEPT ![r] = Append(@,
       IF op = "list" THEN CallList(FALSE, calendar) ELSE Call(op, FALSE, Null))]
  /\ UNCHANGED <<localZone, db, TWILIO_WHATSAPP_FROM, calendar, bookings, messages, reqs>>

\* Mutant of Rejects: the catch block deletes the event the request inserted.
Rejects_RemovesEvent(r, op) ==
  /\ reqs[r].pc = op
  /\ reqs' = [reqs EXCEPT ![r] = Caught(@)]
  /\ calls' = [calls EXCEPT ![r] = Append(@,
       IF op = "list" THEN CallList(FALSE, calendar) ELSE Call(op, FALSE, Null))]
  /\ calendar' = {e \in calendar : e.id # reqs[r].insertRes}
  /\ UNCHANGED <<localZone, db, TWILIO_WHATSAPP_FROM, bookings, messages>>

\* Mutant of Rejects: the catch block rolls the pending record back.
Rejects_RollsBack(r, op) ==
  /\ reqs[r].pc = op
  /\ reqs' = [reqs EXCEPT ![r] = Caught(@)]
  /\ calls' = [calls EXCEPT ![r] = Append(@,
       IF op = "list" THEN CallList(FALSE, calendar) ELSE Call(op, FALSE, Null))]
  /\ bookings' =
       IF reqs[r].bookingRef = Null
       THEN bookings
       ELSE [bookings EXCEPT ![reqs[r].bookingRef].status = "cancelled"]
  /\ UNCHANGED <<localZone, db, TWILIO_WHATSAPP_FROM, calendar, messages>>

\* Mutant of Rejects: a rejected list call is taken for a free slot.
Rejects_FailsOpen(r, op) ==
  /\ reqs[r].pc = op
  /\ reqs' = [reqs EXCEPT ![r] =
       IF op = "list" THEN AfterList(@, {}) ELSE Caught(@)]
  /\ calls' = [calls EXCEPT ![r] = Append(@,
       IF op = "list" THEN CallList(FALSE, calendar) ELSE Call(op, FALSE, Null))]
  /\ UNCHANGED <<localZone, db, TWILIO_WHATSAPP_FROM, calendar, bookings, messages>>

\* Lines 119-122: the awaited call rejects; the collaborator is unchanged and
\* the catch block answers 500.
Rejects(r, op) ==
  /\ reqs[r].pc = op
  /\ reqs' = [reqs EXCEPT ![r] = Caught(@)]
  /\ calls' = [calls EXCEPT ![r] = Append(@,
       IF op = "list" THEN CallList(FALSE, calendar) ELSE Call(op, FALSE, Null))]
  /\ UNCHANGED <<localZone, db, TWILIO_WHATSAPP_FROM, calendar, bookings, messages>>

ListRejects(r) == Rejects(r, "list")
AddRejects(r) == Rejects(r, "add")
InsertRejects(r) == Rejects(r, "insert")
UpdateRejects(r) == Rejects(r, "update")
SendRejects(r) == Rejects(r, "send")

Next ==
  \/ \E body \in Bodies : Receive(body)
  \/ \E r \in Rs : ListReturns(r)
  \/ \E r \in Rs : ListRejects(r)
  \/ \E r \in Rs : AddReturns(r)
  \/ \E r \in Rs : AddRejects(r)
  \/ \E r \in Rs : InsertReturns(r)
  \/ \E r \in Rs : InsertRejects(r)
  \/ \E r \in Rs : UpdateReturns(r)
  \/ \E r \in Rs : UpdateRejects(r)
  \/ \E r \in Rs : SendReturns(r)
  \/ \E r \in Rs : SendRejects(r)

Spec == Init /\ [][Next]_vars

\* ------------------------------------------------------------- type check
TypeOK ==
  /\ db \in BOOLEAN
  /\ Len(reqs) <= MaxReqs
  /\ Len(calls) = Len(reqs)
  /\ \A r \in Rs :
       reqs[r].pc \in {"list", "add", "insert", "update", "send", "done"}

\* ------------------------------------------------- vocabulary of the claims
\* The external calls invocation r made, by name.
Ops(r) == [i \in 1..Len(calls[r]) |-> calls[r][i].op]

\* r made the call op and it resolved / was rejected.
Resolved(r, op) == \E i \in 1..Len(calls[r]) : calls[r][i].op = op /\ calls[r][i].ok

Rejected(r, op) == \E i \in 1..Len(calls[r]) : calls[r][i].op = op /\ ~calls[r][i].ok

NoneRejected(r) == \A i \in 1..Len(calls[r]) : calls[r][i].ok

\* The id of the record (op = "add") or event (op = "insert") r created.
Created(r, op) ==
  LET i == CHOOSE i \in 1..Len(calls[r]) : calls[r][i].op = op /\ calls[r][i].ok
  IN calls[r][i].id

\* A required field of the body is absent or empty.
LacksField(body) ==
  \E f \in {"service", "date", "time", "name", "phone"} :
    \/ f = "service" /\ body.service = ""
    \/ f = "date" /\ body.date = ""
    \/ f = "time" /\ body.time = ""
    \/ f = "name" /\ body.name = ""
    \/ f = "phone" /\ body.phone = <<>>

\* The event e and the window [s, t) share an instant.
Overlaps(e, s, t) == e.start < t /\ s < e.end

\* The availability check of r returned, and the calendar it was evaluated
\* against held an event overlapping r's window / held none.
SawOverlap(r) ==
  /\ Resolved(r, "list")
  /\ \E e \in calls[r][1].cal : Overlaps(e, reqs[r].startISO, reqs[r].endISO)

SawFree(r) ==
  /\ Resolved(r, "list")
  /\ \A e \in calls[r][1].cal : ~Overlaps(e, reqs[r].startISO, reqs[r].endISO)

Done(r) == reqs[r].pc = "done"

\* ------------------------------------------------------------------ claims
\* C1: a request with a required field (service, date, time, name, phone)
\* absent or empty is answered 400 and makes no external call at all: no
\* calendar list, no datastore create or update, no calendar insert, no
\* notification send.
C1_MissingFieldIs400 ==
  \A r \in Rs :
    LacksField(reqs[r].body) =>
      /\ Done(r)
      /\ reqs[r].status = BadRequest
      /\ calls[r] = <<>>

\* Witness of C1: a request with only phone missing was answered.
C1_Witness ==
  \E r \in Rs :
    /\ reqs[r].body.phone = <<>>
    /\ reqs[r].body.service # ""
    /\ reqs[r].status = BadRequest

\* C2: when the availability check of a request with all required fields
\* returns and the calendar held, at that time, an event overlapping the
\* window [start, end), the request is answered 409 and the list is the only
\* external call it ever makes (no datastore write, no calendar insert, no
\* notification send); the step that answers 409 leaves the calendar, the
\* datastore and the sent messages unchanged.
C2_OverlapIs409 ==
  /\ [](\A r \in Rs :
          SawOverlap(r) =>
            /\ Done(r)
            /\ reqs[r].status = Conflict
            /\ Ops(r) = <<"list">>
            /\ reqs[r].bookingRef = Null
            /\ reqs[r].insertRes = Null)
  /\ [][\A r \in Rs :
          (reqs[r].pc = "list" /\ SawOverlap(r)')
            => UNCHANGED <<calendar, bookings, messages>>]_vars

\* Witness of C2: a request was answered 409 on a calendar holding an event
\* that overlaps its window.
C2_Witness ==
  \E r \in Rs :
    /\ reqs[r].status = Conflict
    /\ SawOverlap(r)
    /\ ~LacksField(reqs[r].body)

\* The record r created, and the event r inserted.
RecordOf(r) == bookings[Created(r, "add")]

EventOf(r) == CHOOSE e \in calendar : e.id = Created(r, "insert")

\* The calendar holds the event r inserted, over r's window.
EventInserted(r) ==
  /\ Resolved(r, "insert")
  /\ \E e \in calendar :
       /\ e.id = Created(r, "insert")
       /\ e.start = reqs[r].startISO
       /\ e.end = reqs[r].endISO

\* C3: with persistence enabled, a request with all required fields whose
\* availability check found no overlapping event and whose external calls
\* all succeed creates a datastore record with status pending (and no event
\* id), later updates that same record to confirmed with the id of the
\* calendar event it inserted, and is answered 200 with eventId the id of
\* the inserted event and bookingId the id of the created record.
C3_PendingThenConfirmed ==
  \A r \in Rs :
    (db /\ ~LacksField(reqs[r].body) /\ SawFree(r)) =>
      /\ (Resolved(r, "add") /\ ~Resolved(r, "update")) =>
           /\ RecordOf(r).status = "pending"
           /\ RecordOf(r).calendarEventId = Null
      /\ Resolved(r, "update") =>
           /\ SubSeq(Ops(r), 1, 4) = <<"list", "add", "insert", "update">>
           /\ RecordOf(r).status = "confirmed"
           /\ RecordOf(r).calendarEventId = Created(r, "insert")
           /\ EventInserted(r)
      /\ (Done(r) /\ NoneRejected(r)) =>
           /\ reqs[r].status = OK
           /\ Resolved(r, "update")
           /\ reqs[r].eventId = Created(r, "insert")
           /\ reqs[r].bookingId = Created(r, "add")

\* Witness of C3: with persistence enabled a request was answered 200.
C3_Witness ==
  /\ db
  /\ \E r \in Rs :
       /\ reqs[r].status = OK
       /\ SawFree(r)
       /\ Resolved(r, "update")
       /\ reqs[r].bookingId # Null

\* C4: with persistence disabled no datastore create or update is ever
\* performed; a request with all required fields whose availability check
\* found no overlapping event and whose external calls all succeed still
\* inserts a calendar event and is answered 200 with bookingId null and
\* eventId the id of the inserted event.
C4_NoPersistence ==
  ~db =>
    /\ bookings = <<>>
    /\ \A r \in Rs :
         /\ \A i \in 1..Len(calls[r]) : calls[r][i].op \notin {"add", "update"}
         /\ (~LacksField(reqs[r].body) /\ SawFree(r)
               /\ Done(r) /\ NoneRejected(r)) =>
              /\ reqs[r].status = OK
              /\ reqs[r].bookingId = Null
              /\ EventInserted(r)
              /\ reqs[r].eventId = Created(r, "insert")

\* Witness of C4: with persistence disabled a request was answered 200.
C4_Witness ==
  /\ ~db
  /\ \E r \in Rs :
       /\ reqs[r].status = OK
       /\ SawFree(r)
       /\ EventInserted(r)

\* The windows of r1 and r2 share an instant.
WindowsOverlap(r1, r2) ==
  /\ reqs[r1].startISO < reqs[r2].endISO
  /\ reqs[r2].startISO < reqs[r1].endISO

\* C5: the availability check and the calendar insert of one request are not
\* atomic: two requests for overlapping windows can both pass the check on a
\* free calendar, both insert an event and both be answered 200 (the state
\* C5_Witness).  Overlapping events of two requests arise in just that way:
\* whenever the calendar holds the events of two requests with overlapping
\* windows, each request's availability check found the slot free and was
\* evaluated before the other request's insert.
C5_OverlapOnlyByRace ==
  \A r1, r2 \in Rs :
    (/\ r1 # r2
     /\ WindowsOverlap(r1, r2)
     /\ EventInserted(r1)
     /\ EventInserted(r2)) =>
      /\ SawFree(r1)
      /\ SawFree(r2)
      /\ \A e \in calls[r2][1].cal : e.id # Created(r1, "insert")
      /\ \A e \in calls[r1][1].cal : e.id # Created(r2, "insert")

\* Witness of C5: on an initially free calendar two requests both passed the
\* check on the empty calendar, both inserted and both were answered 200; the
\* calendar holds their two overlapping events.
C5_Witness ==
  \E r1, r2 \in Rs :
    /\ r1 # r2
    /\ SawFree(r1) /\ SawFree(r2)
    /\ calls[r1][1].cal = {} /\ calls[r2][1].cal = {}
    /\ EventInserted(r1) /\ EventInserted(r2)
    /\ reqs[r1].status = OK /\ reqs[r2].status = OK
    /\ EventOf(r1) # EventOf(r2)
    /\ Overlaps(EventOf(r1), EventOf(r2).start, EventOf(r2).end)

\* The calendar holds no event inserted by r, and Twilio accepted no message
\* of r: every event and every message is another request's.
NoEventOf(r) ==
  /\ ~Resolved(r, "insert")
  /\ \A e \in calendar :
       \E r2 \in Rs \ {r} : Resolved(r2, "insert") /\ Created(r2, "insert") = e.id

NoMessageOf(r) ==
  /\ ~Resolved(r, "send")
  /\ Len(messages) = Cardinality({r2 \in Rs \ {r} : Resolved(r2, "send")})

\* C6: if the calendar insert of a request fails after its pending record was
\* written, then in every later state the record is still there with status
\* pending and no calendar event id, the insert is the last external call the
\* request made (no delete, no update, no send), the calendar holds no event
\* of the request, no notification of it was sent, and the response is 500.
C6_OrphanedPending ==
  \A r \in Rs :
    (Resolved(r, "add") /\ Rejected(r, "insert")) =>
      /\ Done(r)
      /\ reqs[r].status = InternalError
      /\ Ops(r) = <<"list", "add", "insert">>
      /\ Created(r, "add") \in 1..Len(bookings)
      /\ RecordOf(r).status = "pending"
      /\ RecordOf(r).calendarEventId = Null
      /\ NoEventOf(r)
      /\ NoMessageOf(r)

\* Witness of C6: an insert failed after the add, and another request went on
\* to insert its own event afterwards.
C6_Witness ==
  \E r \in Rs :
    /\ Resolved(r, "add")
    /\ Rejected(r, "insert")
    /\ calendar # {}

\* C7: if the notification send of a request fails after its record was
\* confirmed, the calendar event stays in the calendar, the record stays
\* confirmed with the event's id, no notification of the request is
\* delivered, and the response is 500, not 200.
C7_ConfirmedButNotNotified ==
  \A r \in Rs :
    (Resolved(r, "update") /\ Rejected(r, "send")) =>
      /\ Done(r)
      /\ reqs[r].status = InternalError
      /\ EventInserted(r)
      /\ RecordOf(r).status = "confirmed"
      /\ RecordOf(r).calendarEventId = Created(r, "insert")
      /\ NoMessageOf(r)

\* Witness of C7: a send failed after the update.
C7_Witness ==
  \E r \in Rs : Resolved(r, "update") /\ Rejected(r, "send")

\* C8: a failed external call (calendar list, datastore create, calendar
\* insert, datastore update, notification send) is the last external call
\* its request ever makes and the request is answered 500; what the earlier
\* steps did stays as it is: a record the request created is still there,
\* pending if the request's update did not succeed and confirmed if it did,
\* and an event it inserted is still in the calendar.  A failed availability
\* query gives 500 with no datastore write, no calendar insert and no
\* notification.
C8_FailureAborts ==
  \A r \in Rs :
    ~NoneRejected(r) =>
      /\ \A i \in 1..Len(calls[r]) : ~calls[r][i].ok => i = Len(calls[r])
      /\ Done(r)
      /\ reqs[r].status = InternalError
      /\ Resolved(r, "add") =>
           /\ Created(r, "add") \in 1..Len(bookings)
           /\ RecordOf(r).status =
                IF Resolved(r, "update") THEN "confirmed" ELSE "pending"
      /\ Resolved(r, "insert") => EventInserted(r)
      /\ Rejected(r, "list") =>
           /\ Ops(r) = <<"list">>
           /\ reqs[r].bookingRef = Null
           /\ NoEventOf(r)
           /\ NoMessageOf(r)

\* Witness of C8: an availability query failed while the calendar held an
\* event, and another request's datastore update failed after its insert.
C8_Witness ==
  /\ \E r \in Rs : Rejected(r, "list") /\ calendar # {}
  /\ \E r \in Rs : Rejected(r, "update") /\ Resolved(r, "insert")

\* The record rec is of a booking whose calendar event e is.
EventFor(e, rec) ==
  /\ e.id = rec.calendarEventId
  /\ e.start = toISO(rec.date, rec.time)
  /\ e.end = e.start + rec.duration
  /\ e.service = rec.service
  /\ e.name = rec.name

\* C9: every datastore record has status pending or confirmed; a record is
\* created pending, is never removed, changes only by going from pending to
\* confirmed (so at most once, and a confirmed record never changes again),
\* and is confirmed only if the calendar holds an event inserted for it whose
\* id is attached to the record.
C9_Lifecycle ==
  /\ [](\A i \in 1..Len(bookings) :
          /\ bookings[i].status \in {"pending", "confirmed"}
          /\ bookings[i].status = "pending" => bookings[i].calendarEventId = Null
          /\ bookings[i].status = "confirmed" =>
               \E e \in calendar : EventFor(e, bookings[i]))
  /\ [][/\ Len(bookings') >= Len(bookings)
        /\ \A i \in 1..Len(bookings') :
             IF i > Len(bookings)
             THEN bookings'[i].status = "pending"
             ELSE bookings'[i] # bookings[i] =>
                    /\ bookings[i].status = "pending"
                    /\ bookings'[i].status = "confirmed"]_vars

\* Witness of C9: one record is confirmed and another is still pending.
C9_Witness ==
  \E i, j \in 1..Len(bookings) :
    /\ bookings[i].status = "confirmed"
    /\ bookings[i].calendarEventId # Null
    /\ bookings[j].status = "pending"

\* The external calls of a request that runs to the response, in order.
AllSteps ==
  <<"list">> \o (IF db THEN <<"add">> ELSE <<>>) \o <<"insert">>
    \o (IF db THEN <<"update">> ELSE <<>>)
    \o (IF TWILIO_WHATSAPP_FROM # "" THEN <<"send">> ELSE <<>>)

\* C10: the external calls of one request are made in the order availability
\* check, datastore create, calendar insert, datastore update, notification
\* send (those the configuration has), each only after the previous one
\* returned successfully, and 200 is answered only after all of them.  So a
\* datastore record exists only if its request's availability check returned
\* available, a record is confirmed only if its request's calendar insert
\* returned, and a notification was sent only if its request's event was
\* inserted and, with persistence enabled, its record confirmed.
C10_StepOrder ==
  /\ \A r \in Rs :
       /\ Len(calls[r]) <= Len(AllSteps)
       /\ Ops(r) = SubSeq(AllSteps, 1, Len(calls[r]))
       /\ \A i \in 1..(Len(calls[r]) - 1) : calls[r][i].ok
       /\ Len(calls[r]) > 1 => SawFree(r)
       /\ reqs[r].status = OK => (Ops(r) = AllSteps /\ NoneRejected(r))
       /\ Resolved(r, "send") =>
            /\ EventInserted(r)
            /\ db => (Resolved(r, "update") /\ RecordOf(r).status = "confirmed")
  /\ \A i \in 1..Len(bookings) :
       \E r \in Rs :
         /\ Resolved(r, "add")
         /\ Created(r, "add") = i
         /\ SawFree(r)
         /\ bookings[i].status = "confirmed" =>
              (Resolved(r, "insert") /\ Created(r, "insert") = bookings[i].calendarEventId)
  /\ Len(messages) = Cardinality({r \in Rs : Resolved(r, "send")})

\* Witness of C10: with persistence and a sender configured a request ran
\* all five calls and was answered 200.
C10_Witness ==
  \E r \in Rs :
    /\ reqs[r].status = OK
    /\ Ops(r) = <<"list", "add", "insert", "update", "send">>

\* C11: the availability check of a request returns available if and only if
\* the calendar it is evaluated against holds no event overlapping the
\* half-open window [start, end) (events of positive duration): an event that
\* ends exactly at start or begins exactly at end does not make the slot
\* unavailable, an event sharing an instant with the window does.  Available
\* shows as the handler going on to its next call, unavailable as the 409.
C11_AvailableIffNoOverlap ==
  \A r \in Rs :
    Resolved(r, "list") =>
      /\ reqs[r].status = Conflict <=>
           \E e \in calls[r][1].cal :
             Overlaps(e, reqs[r].startISO, reqs[r].endISO)
      /\ (reqs[r].status # Conflict /\ Len(calls[r]) = 1) =>
           reqs[r].pc \in {"add", "insert"}

\* Witness of C11: a check returned available although the calendar held an
\* event ending exactly at the window's start.
C11_Witness ==
  \E r \in Rs :
    /\ SawFree(r)
    /\ reqs[r].status # Conflict
    /\ \E e \in calls[r][1].cal : e.end = reqs[r].startISO

\* A second witness of the boundary: an event beginning exactly at the
\* window's end.
C11_WitnessEnd ==
  \E r \in Rs :
    /\ SawFree(r)
    /\ reqs[r].status # Conflict
    /\ \E e \in calls[r][1].cal : e.start = reqs[r].endISO

\* C12: under every interleaving, the update of a request goes to exactly
\* the record that request created and attaches the id of the event that
\* request inserted: a record carries its creator's data, is confirmed with
\* its creator's event id exactly when its creator's update succeeded, no two
\* requests share a record or an event, and a 200 reports the record and the
\* event of its own request.
C12_OwnRecordOwnEvent ==
  /\ \A r \in Rs :
       /\ Resolved(r, "add") =>
            /\ RecordOf(r).time = reqs[r].body.time
            /\ RecordOf(r).duration = DurationOf(reqs[r].body)
            /\ RecordOf(r).status =
                 IF Resolved(r, "update") THEN "confirmed" ELSE "pending"
            /\ RecordOf(r).calendarEventId =
                 IF Resolved(r, "update") THEN Created(r, "insert") ELSE Null
       /\ \A i \in 1..Len(calls[r]) :
            (calls[r][i].op = "update" /\ calls[r][i].ok) =>
              calls[r][i].id = Created(r, "add")
       /\ reqs[r].status = OK =>
            /\ reqs[r].eventId = Created(r, "insert")
            /\ reqs[r].bookingId = IF db THEN Created(r, "add") ELSE Null
  /\ \A r1, r2 \in Rs :
       r1 # r2 =>
         /\ (Resolved(r1, "add") /\ Resolved(r2, "add")) =>
              Created(r1, "add") # Created(r2, "add")
         /\ (Resolved(r1, "insert") /\ Resolved(r2, "insert")) =>
              Created(r1, "insert") # Created(r2, "insert")

\* Witness of C12: two requests ran interleaved (the one whose record was
\* created first inserted its event last) and both records are confirmed.
C12_Witness ==
  \E r1, r2 \in Rs :
    /\ Resolved(r1, "update") /\ Resolved(r2, "update")
    /\ Created(r1, "add") < Created(r2, "add")
    /\ Created(r1, "insert") > Created(r2, "insert")
    /\ reqs[r1].status = OK /\ reqs[r2].status = OK

\* The number of calls op that r made, and the number of requests whose call
\* op resolved.
CallCount(r, op) == Cardinality({i \in 1..Len(calls[r]) : calls[r][i].op = op})

ResolvedCount(op) == Cardinality({r \in Rs : Resolved(r, op)})

\* C13: no retries: whatever the outcomes of its calls, a request makes at
\* most one calendar list, one datastore create, one calendar insert, one
\* datastore update and one notification send; so the datastore holds one
\* record per successful create, the calendar one event per successful
\* insert, and Twilio got one message per successful send.
C13_NoRetries ==
  /\ \A r \in Rs :
       \A op \in {"list", "add", "insert", "update", "send"} : CallCount(r, op) <= 1
  /\ Len(bookings) = ResolvedCount("add")
  /\ Cardinality(calendar) = ResolvedCount("insert")
  /\ Len(messages) = ResolvedCount("send")

\* Witness of C13: a request whose datastore update was rejected after three
\* successful calls made each call once and is done.
C13_Witness ==
  \E r \in Rs :
    /\ Rejected(r, "update")
    /\ Ops(r) = <<"list", "add", "insert", "update">>
    /\ Done(r)

\* r reached the notification step: the send is awaited or was made.
SendAttempted(r) ==
  \/ reqs[r].pc = "send"
  \/ \E i \in 1..Len(calls[r]) : calls[r][i].op = "send"

\* Every step of r before the notification succeeded.
EarlierSucceeded(r) ==
  /\ Resolved(r, "insert")
  /\ db => Resolved(r, "update")

\* C14: a request makes the notification send if and only if a sender
\* identity is configured and all its earlier steps succeeded, and a send
\* that resolves delivers one message from the configured sender about the
\* request.  With no sender identity nothing is ever sent, and a request
\* whose earlier steps succeeded is answered 200 with its event inserted and,
\* with persistence enabled, its record confirmed.
C14_NotifyIffConfigured ==
  /\ \A r \in Rs :
       /\ SendAttempted(r) <=> (TWILIO_WHATSAPP_FROM # "" /\ EarlierSucceeded(r))
       /\ Resolved(r, "send") =>
            \E i \in 1..Len(messages) :
              /\ messages[i].from = TWILIO_WHATSAPP_FROM
              /\ messages[i].time = reqs[r].body.time
              /\ messages[i].service = reqs[r].body.service
       /\ (TWILIO_WHATSAPP_FROM = "" /\ EarlierSucceeded(r)) =>
            /\ reqs[r].status = OK
            /\ EventInserted(r)
            /\ db => RecordOf(r).status = "confirmed"
  /\ TWILIO_WHATSAPP_FROM = "" => messages = <<>>

\* Witness of C14: with persistence but no sender a request was answered 200
\* with its record confirmed.
C14_Witness ==
  /\ TWILIO_WHATSAPP_FROM = ""
  /\ db
  /\ \E r \in Rs :
       /\ reqs[r].status = OK
       /\ Resolved(r, "update")
       /\ RecordOf(r).status = "confirmed"

\* ------------------------------------------------ the phone specification
\* One request whose phone is any non-empty text over PhoneChars, served
\* with a sender identity configured.
PhoneChars == {"+", "3", "5"}

PhoneInputs == UNION {[1..n -> PhoneChars] : n \in 1..MaxPhoneLen}

InitPhone == Init /\ TWILIO_WHATSAPP_FROM # ""

ReceivePhone(phone) ==
  /\ reqs = <<>>
  /\ Receive([BaseBody EXCEPT !.phone = phone])

NextPhone ==
  \/ \E phone \in PhoneInputs : ReceivePhone(phone)
  \/ \E r \in Rs : ListReturns(r)
  \/ \E r \in Rs : ListRejects(r)
  \/ \E r \in Rs : AddReturns(r)
  \/ \E r \in Rs : AddRejects(r)
  \/ \E r \in Rs : InsertReturns(r)
  \/ \E r \in Rs : InsertRejects(r)
  \/ \E r \in Rs : UpdateReturns(r)
  \/ \E r \in Rs : UpdateRejects(r)
  \/ \E r \in Rs : SendReturns(r)
  \/ \E r \in Rs : SendRejects(r)

SpecPhone == InitPhone /\ [][NextPhone]_vars

\* The number of "+" the text p starts with.
RECURSIVE LeadingPlus(_)
LeadingPlus(p) ==
  IF Len(p) = 0 \/ p[1] # "+" THEN 0 ELSE 1 + LeadingPlus(Tail(p))

\* C15 as stated: the destination is the phone with exactly one leading "+"
\* (prepended when the phone has none, the phone unchanged when it starts
\* with "+"), and normalizing the destination again changes nothing.
C15_ExactlyOnePlus ==
  \A r \in Rs :
    Resolved(r, "send") =>
      LET p == reqs[r].body.phone
          to == messages[1].to
      IN /\ LeadingPlus(to) = 1
         /\ p[1] # "+" => to = <<"+">> \o p
         /\ p[1] = "+" => to = p
         /\ NormalizePhone(to) = to

\* C15, amended: the destination always starts with "+": a phone without a
\* leading "+" gets exactly one prepended, a phone that starts with "+" is
\* sent unchanged (so it keeps every "+" it starts with, and has exactly one
\* only if the phone had exactly one), and normalizing the destination again
\* changes nothing.
C15_LeadingPlusKept ==
  \A r \in Rs :
    Resolved(r, "send") =>
      LET p == reqs[r].body.phone
          to == messages[1].to
      IN /\ LeadingPlus(to) >= 1
         /\ p[1] # "+" => (to = <<"+">> \o p /\ LeadingPlus(to) = 1)
         /\ p[1] = "+" => (to = p /\ LeadingPlus(to) = LeadingPlus(p))
         /\ NormalizePhone(to) = to

\* Witness of C15: a notification went to a phone that already started with
\* "+", unchanged.
C15_Witness ==
  \E r \in Rs :
    /\ Resolved(r, "send")
    /\ reqs[r].body.phone[1] = "+"
    /\ messages[1].to = reqs[r].body.phone

\* ------------------------------------------------- the time specification
\* One request with all required fields, on one of two dates (an ordinary
\* day, and the day the clocks of Europe/Lisbon are set back at 01:00 UTC),
\* served by a runtime in either zone.
TimeDates == {"2025-06-01", "2025-10-26"}

TimeTimes == {"00:30", "01:30", "10:00"}

TimeDurations == {<<>>, <<30>>, <<120>>}

TimeBodies ==
  {[BaseBody EXCEPT !.date = d, !.time = t, !.duration = n] :
     d \in TimeDates, t \in TimeTimes, n \in TimeDurations}

InitTime ==
  /\ localZone \in Zones
  /\ db \in BOOLEAN
  /\ TWILIO_WHATSAPP_FROM \in Senders
  /\ calendar = {}
  /\ bookings = <<>>
  /\ messages = <<>>
  /\ reqs = <<>>
  /\ calls = <<>>

ReceiveTime(body) ==
  /\ reqs = <<>>
  /\ Receive(body)

NextTime ==
  \/ \E body \in TimeBodies : ReceiveTime(body)
  \/ \E r \in Rs : ListReturns(r)
  \/ \E r \in Rs : ListRejects(r)
  \/ \E r \in Rs : AddReturns(r)
  \/ \E r \in Rs : AddRejects(r)
  \/ \E r \in Rs : InsertReturns(r)
  \/ \E r \in Rs : InsertRejects(r)
  \/ \E r \in Rs : UpdateReturns(r)
  \/ \E r \in Rs : UpdateRejects(r)
  \/ \E r \in Rs : SendReturns(r)
  \/ \E r \in Rs : SendRejects(r)

SpecTime == InitTime /\ [][NextTime]_vars

\* The minutes asked for: duration, or 60 when the body has none.
MinutesAsked(body) == IF body.duration = <<>> THEN 60 ELSE body.duration[1]

\* C16: for every request with all required fields, the end instant used for
\* the availability check and for the inserted calendar event is exactly
\* duration minutes (60 when the body has no duration) after the start
\* instant obtained from date and time, and the inserted event has the
\* window [start, end) that the availability check was made for.
C16_EndIsStartPlusDuration ==
  \A r \in Rs :
    (~LacksField(reqs[r].body) /\ reqs[r].pc # "done") =>
      /\ reqs[r].endISO = reqs[r].startISO + MinutesAsked(reqs[r].body)
      /\ Resolved(r, "insert") =>
           /\ EventOf(r).start = reqs[r].startISO
           /\ EventOf(r).end = reqs[r].startISO + MinutesAsked(reqs[r].body)

\* ------------------------------------------- the sequential specification
\* The requests are processed one at a time: a request is received only
\* when every earlier request has its response.
ReceiveSeq(body) ==
  /\ \A r \in Rs : reqs[r].pc = "done"
  /\ Receive(body)

NextSeq ==
  \/ \E body \in Bodies : ReceiveSeq(body)
  \/ \E r \in Rs : ListReturns(r)
  \/ \E r \in Rs : ListRejects(r)
  \/ \E r \in Rs : AddReturns(r)
  \/ \E r \in Rs : AddRejects(r)
  \/ \E r \in Rs : InsertReturns(r)
  \/ \E r \in Rs : InsertRejects(r)
  \/ \E r \in Rs : UpdateReturns(r)
  \/ \E r \in Rs : UpdateRejects(r)
  \/ \E r \in Rs : SendReturns(r)
  \/ \E r \in Rs : SendRejects(r)

SpecSeq == Init /\ [][NextSeq]_vars

\* C17: when the requests are processed one at a time (all durations here
\* are positive), then whatever their outcomes the events in the calendar
\* are pairwise non-overlapping, one event per window at most; and a request
\* whose window overlaps the event of an earlier request, also of one that
\* was answered 500 after its insert, is answered 409 and inserts nothing.
C17_SequentialNoOverlap ==
  /\ \A e1, e2 \in calendar :
       e1 # e2 => ~Overlaps(e1, e2.start, e2.end)
  /\ \A r1, r2 \in Rs :
       (/\ r1 < r2
        /\ EventInserted(r1)
        /\ WindowsOverlap(r1, r2)
        /\ Resolved(r2, "list")) =>
         /\ reqs[r2].status = Conflict
         /\ ~Resolved(r2, "insert")

\* Witness of C17: a request was answered 500 after its event was inserted,
\* and the same request sent again was answered 409.
C17_Witness ==
  \E r1, r2 \in Rs :
    /\ r1 < r2
    /\ reqs[r1].body = reqs[r2].body
    /\ reqs[r1].status = InternalError
    /\ EventInserted(r1)
    /\ reqs[r2].status = Conflict
    /\ Cardinality(calendar) = 1

\* C18: if the datastore update of a request fails after its calendar insert
\* succeeded, the inserted event stays in the calendar, the request's record
\* stays pending with no calendar event id, the update is the request's last
\* call, no notification of it is sent, and the response is 500.  So (the
\* state C18_Witness) with persistence enabled the calendar can end up
\* holding an event that no record is confirmed with.
C18_EventWithoutConfirmation ==
  \A r \in Rs :
    (Resolved(r, "insert") /\ Rejected(r, "update")) =>
      /\ Done(r)
      /\ reqs[r].status = InternalError
      /\ Ops(r) = <<"list", "add", "insert", "update">>
      /\ EventInserted(r)
      /\ RecordOf(r).status = "pending"
      /\ RecordOf(r).calendarEventId = Null
      /\ NoMessageOf(r)

\* Witness of C18: every request has its response, persistence is enabled,
\* and the calendar holds the event of a request whose update failed, an
\* event whose id no record carries.
C18_Witness ==
  /\ db
  /\ \A r \in Rs : Done(r)
  /\ \E r \in Rs :
       /\ Rejected(r, "update")
       /\ EventInserted(r)
       /\ \A i \in 1..Len(bookings) :
            bookings[i].calendarEventId # Created(r, "insert")

\* ------------------------------------------------- the fair specification
\* Every external call eventually returns or fails: the awaited call of an
\* invocation cannot stay pending for ever.
CallSettles(r) ==
  /\ r \in Rs
  /\ \/ ListReturns(r) \/ ListRejects(r)
     \/ AddReturns(r) \/ AddRejects(r)
     \/ InsertReturns(r) \/ InsertRejects(r)
     \/ UpdateReturns(r) \/ UpdateRejects(r)
     \/ SendReturns(r) \/ SendRejects(r)

\* The bodies of the fair specification: a complete one (sent twice it gives
\* 200 and 409), one with a field missing and one with a time Date rejects.
FairBodies ==
  {BaseBody, [BaseBody EXCEPT !.time = ""], [BaseBody EXCEPT !.time = "25:00"]}

NextFair ==
  \/ \E body \in FairBodies : Receive(body)
  \/ \E r \in Rs : ListReturns(r)
  \/ \E r \in Rs : ListRejects(r)
  \/ \E r \in Rs : AddReturns(r)
  \/ \E r \in Rs : AddRejects(r)
  \/ \E r \in Rs : InsertReturns(r)
  \/ \E r \in Rs : InsertRejects(r)
  \/ \E r \in Rs : UpdateReturns(r)
  \/ \E r \in Rs : UpdateRejects(r)
  \/ \E r \in Rs : SendReturns(r)
  \/ \E r \in Rs : SendRejects(r)

SpecFair ==
  /\ Init
  /\ [][NextFair]_vars
  /\ \A r \in 1..MaxReqs : WF_vars(CallSettles(r))

Responded(r) == r \in Rs /\ reqs[r].status # NoResponse

\* C19: if every external call eventually returns or fails, every request
\* eventually gets a response; a response is never replaced or repeated; its
\* status is 400, 409, 200 or 500; and 200 is answered only after the
\* calendar insert succeeded, the record (with persistence enabled) was
\* confirmed and the notification (with a sender configured) was sent.
C19_ExactlyOneResponse ==
  /\ \A r \in 1..MaxReqs : (r \in Rs) ~> Responded(r)
  /\ [][\A r \in Rs : reqs[r].status # NoResponse => reqs'[r] = reqs[r]]_vars
  /\ [](\A r \in Rs :
          /\ reqs[r].status \in
               {NoResponse, BadRequest, Conflict, OK, InternalError}
          /\ reqs[r].pc = "done" => reqs[r].status # NoResponse
          /\ reqs[r].status = OK =>
               /\ EventInserted(r)
               /\ db => (Resolved(r, "update") /\ RecordOf(r).status = "confirmed")
               /\ TWILIO_WHATSAPP_FROM # "" => Resolved(r, "send"))

\* Witness of C19: one request was answered 200 after all its calls, another
\* 409.
C19_Witness ==
  \E r1, r2 \in Rs :
    /\ reqs[r1].status = OK
    /\ Resolved(r1, "send")
    /\ reqs[r2].status = Conflict

====
